---- MODULE Spec2Model ----
(***************************************************************************)
(* ts-fp-di-mikroorm: one lifecycle unit of wrapTsFpDiMikroorm             *)
(* (src/index.ts).  The storage session (MikroORM EntityManager) and the   *)
(* state container (ts-fp-di) are collaborators: every call the layer      *)
(* makes on the session is appended to `ops`, and what the session answers *)
(* (found / not found / failure) is an input of the step that receives it. *)
(***************************************************************************)
EXTENDS Integers, Sequences, FiniteSets, TLC

(* ------------------------------ bounds -------------------------------- *)
\* session calls that fail in one unit
MaxFaults == 2
\* slot writes and onPersist registrations of the caller logic in one unit
MaxCallerSteps == 2
\* entities, scalars and failure wrappers held by the slots of one unit
MaxAtoms == 2
\* slot writes, field writes and onPersist registrations of the on-persist callback
MaxHookSteps == 2

(* ------------------------------ values -------------------------------- *)
\* the entity instances the caller logic has at hand
EntityIds == {"e1", "e2"}

\* own enumerable properties of an entity object; "absent" = no such property,
\* "undef" = property present with value undefined (void 0)
FieldNames == {"id", "value", "$noPersist", "$forDelete", "$forUpdate", "$forUpsert"}
FlagNames == {"$noPersist", "$forDelete", "$forUpdate", "$forUpsert"}
PkVals == {"1", "2"}
ValueVals == {"undef", "null", "a"}
FlagVals == {"absent", "T"}

\* JS truthiness of a property value
Truthy(v) == v \notin {"absent", "undef", "null", "F"}

\* a JS value held in a state slot: tag, object reference, contained values
Node(tag, ref, items) == [tag |-> tag, ref |-> ref, items |-> items]
EntityNode(e) == Node("entity", e, <<>>)
NullNode == Node("null", "", <<>>)
ScalarNode == Node("scalar", "", <<>>)
ErrorNode(x) == Node("error", x, <<>>)
Left(v) == Node("left", "", <<v>>)
Right(v) == Node("right", "", <<v>>)
Some(v) == Node("some", "", <<v>>)
ArrayOf(s) == Node("array", "", s)
MapOf(s) == Node("map", "", s)
SetOf(s) == Node("set", "", s)

Range(s) == {s[i] : i \in DOMAIN s}
SeqsUpTo(S, n) == UNION {[1..k -> S] : k \in 0..n}
Min(S) == CHOOSE x \in S : \A y \in S : x <= y

(* ------------------------------ state --------------------------------- *)
VARIABLES
  pc,        \* where wrapTsFpDiMikroorm stands
  heap,      \* object id -> own properties (entities, found records, references)
  store,     \* als store of the unit: category -> current slot values
  di,        \* diSet registry of the unit: em, entities, on-persist callback
  cb,        \* the promise of cb(); its value is `resp`
  entities,  \* const entities = Array.from(entitiesSet(allState))
  lookups,   \* Promise.all(entitiesForUpsert.map(fetchExistingEntity)): call awaited by each promise
  tasks,     \* Promise.all(entities.map(persistEntity)): state of each promise
  ops,       \* calls issued on the unit's session, in issue order
  merges,    \* field merges done by persistEntity: source, target, target before and after
  faults,    \* the session calls that failed, in the order they failed
  hookRuns,  \* invocations of on-persist callbacks: callback, Len(ops) at the call, outcome
  result,    \* the promise wrapTsFpDiMikroorm returned
  steps,     \* slot writes and onPersist calls done by the caller logic and by its on-persist callback
  em,        \* const em = orm.em.fork(): the session of the unit (0: none yet)
  regs,      \* the callbacks passed to onPersist in the unit, in call order
  held,      \* the entity instances the slots of the unit held at some time
  me,        \* the unit whose continuation runs: its state is in the variables above
  parked,    \* the state of the other units, each suspended at an await or not yet called
  forked     \* sessions forked from orm.em so far

\* the state of one unit
unitVars == <<pc, heap, store, di, cb, entities, lookups, tasks, ops, merges, faults, hookRuns, result, steps,
              em, regs, held>>

vars == <<pc, heap, store, di, cb, entities, lookups, tasks, ops, merges, faults, hookRuns, result, steps,
          em, regs, held, me, parked, forked>>

\* object identities: an entity instance, a record the session found, a reference
NoObj == [k |-> "none", key |-> <<>>]
EntObj(e) == [k |-> "ent", key |-> <<e>>]
RecObj(key) == [k |-> "rec", key |-> key]
RefObj(key) == [k |-> "ref", key |-> key]

\* errors: who raised it, and which of its errors (for a session call: which call)
NoErr == [by |-> "", n |-> 0]
Err(by, n) == [by |-> by, n |-> n]

\* a promise
Pending == [status |-> "pending", value |-> "", err |-> NoErr]
Resolved(v) == [status |-> "resolved", value |-> v, err |-> NoErr]
Rejected(e) == [status |-> "rejected", value |-> "", err |-> e]

Categories == <<"state", "once", "derived">>

(* --------------------------- classification --------------------------- *)
\* constructor of Object.getPrototypeOf(v ?? {})
Ctor(v) ==
  CASE v.tag = "entity" -> "TestEntity"
    [] v.tag = "array"  -> "Array"
    [] v.tag = "map"    -> "Map"
    [] v.tag = "set"    -> "Set"
    [] v.tag = "error"  -> "Error"
    [] v.tag = "scalar" -> "String"
    [] OTHER            -> "Object"

\* orm.config.get('entities')
ConfiguredEntities == {"TestEntity"}

isNullish(v) == v.tag = "null"

isSome(v) == ~isNullish(v) /\ v.tag = "some" /\ ~isNullish(v.items[1])

isRight(v) == ~isNullish(v) /\ v.tag = "right" /\ ~isNullish(v.items[1])

isLeft(v) == ~isNullish(v) /\ v.tag = "left" /\ ~isNullish(v.items[1])

isEntity(v) == Ctor(v) \in di.entities

(* ------------------------------ collector ----------------------------- *)
\* (mutant) the collection is a list: an entity is added at every occurrence
SetAddAgain(set, e) == Append(set, e)

\* a JS Set of entities is kept as the sequence of its members in insertion order
SetAdd(set, e) == IF e \in Range(set) THEN set ELSE Append(set, e)

RECURSIVE SetAddAll(_, _)
SetAddAll(set, es) == IF es = <<>> THEN set ELSE SetAddAll(SetAdd(set, Head(es)), Tail(es))

RECURSIVE Flatten(_)
Flatten(ss) == IF ss = <<>> THEN <<>> ELSE Head(ss) \o Flatten(Tail(ss))

Returned(set) == [thrown |-> FALSE, err |-> NoErr, set |-> set]
Thrown(e) == [thrown |-> TRUE, err |-> e, set |-> <<>>]

RECURSIVE entitiesSet(_, _)
arrayToSet(maybeEntity, ents) ==
  LET sets == [i \in DOMAIN maybeEntity |-> entitiesSet(maybeEntity[i], ents)]
      bad  == {i \in DOMAIN maybeEntity : sets[i].thrown}
  IN IF bad # {} THEN sets[Min(bad)]
     ELSE Returned(SetAddAll(ents, Flatten([i \in DOMAIN maybeEntity |-> sets[i].set])))

\* (mutant) a Left with any payload that is not null is thrown
entitiesSetLeftThrown(maybeEntity, ents) ==
  IF isLeft(maybeEntity)
    THEN Thrown(Err(maybeEntity.items[1].ref, 0))
  ELSE IF maybeEntity.tag = "array" THEN arrayToSet(maybeEntity.items, ents)
  ELSE IF maybeEntity.tag \in {"map", "set"} THEN arrayToSet(maybeEntity.items, ents)
  ELSE IF isSome(maybeEntity) THEN entitiesSet(maybeEntity.items[1], ents)
  ELSE IF isRight(maybeEntity) THEN entitiesSet(maybeEntity.items[1], ents)
  ELSE IF ~isEntity(maybeEntity) THEN Returned(ents)
  ELSE IF Truthy(heap[EntObj(maybeEntity.ref)]["$noPersist"]) THEN Returned(ents)
  ELSE Returned(SetAdd(ents, maybeEntity.ref))

\* (mutant) the fields of an object that is no entity are traversed
entitiesSetDescends(maybeEntity, ents) ==
  IF isLeft(maybeEntity) /\ maybeEntity.items[1].tag = "error"
    THEN Thrown(Err(maybeEntity.items[1].ref, 0))
  ELSE IF maybeEntity.tag = "array" THEN arrayToSet(maybeEntity.items, ents)
  ELSE IF maybeEntity.tag \in {"map", "set"} THEN arrayToSet(maybeEntity.items, ents)
  ELSE IF isSome(maybeEntity) THEN entitiesSet(maybeEntity.items[1], ents)
  ELSE IF isRight(maybeEntity) THEN entitiesSet(maybeEntity.items[1], ents)
  ELSE IF ~isEntity(maybeEntity) THEN arrayToSet(maybeEntity.items, ents)
  ELSE IF Truthy(heap[EntObj(maybeEntity.ref)]["$noPersist"]) THEN Returned(ents)
  ELSE Returned(SetAdd(ents, maybeEntity.ref))

\* (mutant) $noPersist is not looked at
entitiesSetNoSkip(maybeEntity, ents) ==
  IF isLeft(maybeEntity) /\ maybeEntity.items[1].tag = "error"
    THEN Thrown(Err(maybeEntity.items[1].ref, 0))
  ELSE IF maybeEntity.tag = "array" THEN arrayToSet(maybeEntity.items, ents)
  ELSE IF maybeEntity.tag \in {"map", "set"} THEN arrayToSet(maybeEntity.items, ents)
  ELSE IF isSome(maybeEntity) THEN entitiesSet(maybeEntity.items[1], ents)
  ELSE IF isRight(maybeEntity) THEN entitiesSet(maybeEntity.items[1], ents)
  ELSE IF ~isEntity(maybeEntity) THEN Returned(ents)
  ELSE Returned(SetAdd(ents, maybeEntity.ref))

\* (mutant) a Left is a value like any other that is not an entity
entitiesSetLeftPassed(maybeEntity, ents) ==
  IF maybeEntity.tag = "array" THEN arrayToSet(maybeEntity.items, ents)
  ELSE IF maybeEntity.tag \in {"map", "set"} THEN arrayToSet(maybeEntity.items, ents)
  ELSE IF isSome(maybeEntity) THEN entitiesSet(maybeEntity.items[1], ents)
  ELSE IF isRight(maybeEntity) THEN entitiesSet(maybeEntity.items[1], ents)
  ELSE IF ~isEntity(maybeEntity) THEN Returned(ents)
  ELSE IF Truthy(heap[EntObj(maybeEntity.ref)]["$noPersist"]) THEN Returned(ents)
  ELSE Returned(SetAdd(ents, maybeEntity.ref))

\* entitiesSet(maybeEntity, entities), lines 59-82
entitiesSet(maybeEntity, ents) ==
  IF isLeft(maybeEntity) /\ maybeEntity.items[1].tag = "error"
    THEN Thrown(Err(maybeEntity.items[1].ref, 0))
  ELSE IF maybeEntity.tag = "array" THEN arrayToSet(maybeEntity.items, ents)
  ELSE IF maybeEntity.tag \in {"map", "set"} THEN arrayToSet(maybeEntity.items, ents)
  ELSE IF isSome(maybeEntity) THEN entitiesSet(maybeEntity.items[1], ents)
  ELSE IF isRight(maybeEntity) THEN entitiesSet(maybeEntity.items[1], ents)
  ELSE IF ~isEntity(maybeEntity) THEN Returned(ents)
  ELSE IF Truthy(heap[EntObj(maybeEntity.ref)]["$noPersist"]) THEN Returned(ents)
  ELSE Returned(SetAdd(ents, maybeEntity.ref))

(* --------------------------- storage session -------------------------- *)
\* em.getMetadata().get(entity.constructor.name).primaryKeys
PrimaryKeys == <<"id">>

\* primaryKeys.map(pk => entity[pk])
PkOf(e) == [i \in DOMAIN PrimaryKeys |-> heap[EntObj(e)][PrimaryKeys[i]]]

\* diDep<EntityManager>(TS_FP_DI_MIKROORM_EM), lines 50, 92, 98, 130
emDep == di.em

\* one call on the session: the session, the operation, the entity it is issued for, the
\* primary key or the object passed, and how the call ended
Op(op, src, key, tgt, res) == [em |-> emDep, op |-> op, src |-> src, key |-> key, tgt |-> tgt, res |-> res]

\* a reference holds the primary key only
RefFields(key) == [f \in FieldNames |-> IF f = "id" THEN key[1] ELSE "absent"]

\* a record as the session loads it from its row
RecValueVals == {"b"}
RecFields(key, val) ==
  [f \in FieldNames |-> IF f = "id" THEN key[1] ELSE IF f = "value" THEN val ELSE "absent"]

\* (mutant) the filter is left out: every own field of the entity is copied
mergeEvery(updated, entity) ==
  [f \in FieldNames |-> IF entity[f] # "absent" THEN entity[f] ELSE updated[f]]

\* Object.entries(entity).filter(([, v]) => v !== void 0).forEach(([k, v]) => (updated[k] = v))
mergeDefined(updated, entity) ==
  [f \in FieldNames |-> IF entity[f] \notin {"absent", "undef"} THEN entity[f] ELSE updated[f]]

Load(h, obj, fields) == IF obj \in DOMAIN h THEN h ELSE [o \in DOMAIN h \cup {obj} |-> IF o = obj THEN fields ELSE h[o]]

Put(h, obj, fields) == [o \in DOMAIN h \cup {obj} |-> IF o = obj THEN fields ELSE h[o]]

\* fetchExistingEntity: em.findOne(entity.constructor, {pk: entity[pk]}), a promise
fetchExistingEntity(e) == Op("findOne", e, PkOf(e), NoObj, "pending")

(* ----------------------------- persistEntity -------------------------- *)
\* the promise of one persistEntity call: its state, the lookup it awaits or
\* awaited (0: none), the mark it issued (0: none)
Task(state, lookup, mark) == [state |-> state, lookup |-> lookup, mark |-> mark]

MarkRes(failing) == IF failing THEN "failed" ELSE "ok"
MarkEnd(failing) == IF failing THEN "failed" ELSE "done"

Merge(src, tgt, before, after) == [src |-> src, tgt |-> tgt, before |-> before, after |-> after]

\* lines 106-110: `updated` takes the defined fields of `entity`
mergeOnto(st, e, tgt) ==
  [st EXCEPT !.heap = Put(st.heap, tgt, mergeDefined(st.heap[tgt], st.heap[EntObj(e)])),
             !.merges = Append(st.merges, Merge(e, tgt, st.heap[tgt], mergeDefined(st.heap[tgt], st.heap[EntObj(e)])))]

\* em.remove(entity) / em.persist(target): the mark ends the persistEntity call,
\* and a throwing mark rejects its promise
markWith(st, i, op, e, tgt, failing) ==
  LET k == Len(st.ops) + 1
  IN [st EXCEPT !.ops = Append(st.ops, Op(op, e, <<>>, tgt, MarkRes(failing))),
                !.tasks = IF i \in DOMAIN st.tasks
                            THEN [st.tasks EXCEPT ![i] = Task(MarkEnd(failing), st.tasks[i].lookup, k)]
                            ELSE Append(st.tasks, Task(MarkEnd(failing), 0, k)),
                !.faults = IF failing THEN Append(st.faults, k) ELSE st.faults]

\* getRef(entity), lines 129-139: em.getReference(name, pks)
getRef(st, e) ==
  LET key == PkOf(e)
      ref == RefObj(key)
  IN [st EXCEPT !.ops = Append(st.ops, Op("getReference", e, key, ref, "ok")),
                !.heap = Load(st.heap, ref, RefFields(key))]

\* (mutant) an upsert takes the result of the lookup of line 38 and looks up no more
persistEntityCached(st, i, e, failing) ==
  LET f == st.heap[EntObj(e)]
      first == Min({k \in DOMAIN st.ops : st.ops[k].op = "findOne" /\ st.ops[k].src = e})
  IN IF Truthy(f["$forDelete"]) THEN markWith(st, i, "remove", e, EntObj(e), failing)
     ELSE IF Truthy(f["$forUpdate"])
       THEN markWith(mergeOnto(getRef(st, e), e, RefObj(PkOf(e))), i, "persist", e, RefObj(PkOf(e)), failing)
     ELSE IF Truthy(f["$forUpsert"])
       THEN IF st.ops[first].res = "found"
              THEN markWith(mergeOnto(st, e, RecObj(PkOf(e))), i, "persist", e, RecObj(PkOf(e)), failing)
              ELSE markWith(st, i, "persist", e, EntObj(e), failing)
     ELSE markWith(st, i, "persist", e, EntObj(e), failing)

\* (mutant) $forUpsert is looked at before $forUpdate
persistEntityUpsertFirst(st, i, e, failing) ==
  LET f == st.heap[EntObj(e)]
  IN IF Truthy(f["$forDelete"]) THEN markWith(st, i, "remove", e, EntObj(e), failing)
     ELSE IF Truthy(f["$forUpsert"])
       THEN [st EXCEPT !.ops = Append(st.ops, fetchExistingEntity(e)),
                       !.tasks = Append(st.tasks, Task("awaiting", Len(st.ops) + 1, 0))]
     ELSE IF Truthy(f["$forUpdate"])
       THEN markWith(mergeOnto(getRef(st, e), e, RefObj(PkOf(e))), i, "persist", e, RefObj(PkOf(e)), failing)
     ELSE markWith(st, i, "persist", e, EntObj(e), failing)

\* (mutant) $forDelete is looked at after the update and upsert directives
persistEntityDeleteLast(st, i, e, failing) ==
  LET f == st.heap[EntObj(e)]
  IN IF Truthy(f["$forUpdate"])
       THEN markWith(mergeOnto(getRef(st, e), e, RefObj(PkOf(e))), i, "persist", e, RefObj(PkOf(e)), failing)
     ELSE IF Truthy(f["$forUpsert"])
       THEN [st EXCEPT !.ops = Append(st.ops, fetchExistingEntity(e)),
                       !.tasks = Append(st.tasks, Task("awaiting", Len(st.ops) + 1, 0))]
     ELSE IF Truthy(f["$forDelete"]) THEN markWith(st, i, "remove", e, EntObj(e), failing)
     ELSE markWith(st, i, "persist", e, EntObj(e), failing)

\* persistEntity(entity), lines 97-113, up to its first await or to its end
persistEntity(st, i, e, failing) ==
  LET f == st.heap[EntObj(e)]
  IN IF Truthy(f["$forDelete"]) THEN markWith(st, i, "remove", e, EntObj(e), failing)
     ELSE IF Truthy(f["$forUpdate"])
       THEN markWith(mergeOnto(getRef(st, e), e, RefObj(PkOf(e))), i, "persist", e, RefObj(PkOf(e)), failing)
     ELSE IF Truthy(f["$forUpsert"])
       THEN [st EXCEPT !.ops = Append(st.ops, fetchExistingEntity(e)),
                       !.tasks = Append(st.tasks, Task("awaiting", Len(st.ops) + 1, 0))]
     ELSE markWith(st, i, "persist", e, EntObj(e), failing)

\* entities.map(persistEntity), line 39: every call runs to its first await, in array order
RECURSIVE mapPersistEntity(_, _, _)
mapPersistEntity(st, i, fail) ==
  IF i > Len(entities) THEN st
  ELSE mapPersistEntity(persistEntity(st, i, entities[i], i \in fail), i + 1, fail)

\* how a lookup that was fulfilled shows in the log, and the record it loaded
fulfilLookup(st, k, found, val) ==
  LET rec == RecObj(st.ops[k].key)
  IN [st EXCEPT !.ops[k].res = IF found THEN "found" ELSE "none",
                !.ops[k].tgt = IF found THEN rec ELSE NoObj,
                !.heap = IF found THEN Load(st.heap, rec, RecFields(st.ops[k].key, val)) ELSE st.heap]

\* (mutant) the fields are merged onto the found record, and the entity is persisted
resumePersistEntityOnEntity(st, i, found, failing) ==
  LET e   == entities[i]
      rec == RecObj(PkOf(e))
  IN IF found THEN markWith(mergeOnto(st, e, rec), i, "persist", e, EntObj(e), failing)
     ELSE markWith(st, i, "persist", e, EntObj(e), failing)

\* persistEntity(entity) after `await fetchExistingEntity(entity)`, lines 104-112
resumePersistEntity(st, i, found, failing) ==
  LET e   == entities[i]
      rec == RecObj(PkOf(e))
  IN IF found THEN markWith(mergeOnto(st, e, rec), i, "persist", e, rec, failing)
     ELSE markWith(st, i, "persist", e, EntObj(e), failing)

(* ------------------------------- inputs ------------------------------- *)
LeftErrors == {"errA"}
CbErrors == {Err("cb", 1), Err("cb", 2)}
Resps == {"r1", "r2"}
HookIds == {"h1", "h2"}

\* what a slot can hold: an atom, or one wrapper or container around atoms
Atoms == {EntityNode(e) : e \in EntityIds} \cup {ScalarNode} \cup {Left(ErrorNode(x)) : x \in LeftErrors}
Injective(s) == \A i, j \in DOMAIN s : s[i] = s[j] => i = j
\* wrappers inside a container, and containers inside a wrapper
Nested ==
  {ArrayOf(<<Some(a), Right(b)>>) : a, b \in Atoms}
  \cup {Some(MapOf(<<a, b>>)) : a, b \in Atoms}
  \cup {Right(SetOf(<<a>>)) : a \in Atoms}
Values ==
  Atoms
  \cup {Some(v) : v \in Atoms} \cup {Right(v) : v \in Atoms}
  \cup {ArrayOf(s) : s \in SeqsUpTo(Atoms, MaxAtoms)}
  \cup {MapOf(s) : s \in SeqsUpTo(Atoms, MaxAtoms)}
  \cup {SetOf(s) : s \in {t \in SeqsUpTo(Atoms, MaxAtoms) : Injective(t)}}
  \cup Nested

\* atoms a value holds, and the slots of a store together
RECURSIVE AtomCount(_)
RECURSIVE SumAtoms(_)
AtomCount(v) == IF v.tag \in {"array", "map", "set", "some", "right"} THEN SumAtoms(v.items) ELSE 1
SumAtoms(vs) == IF vs = <<>> THEN 0 ELSE AtomCount(Head(vs)) + SumAtoms(Tail(vs))
Held(st) == SumAtoms(st["state"] \o st["once"] \o st["derived"])

\* the entity instances of the unit, as the caller logic leaves them
EntityFields == {f \in [FieldNames -> PkVals \cup ValueVals \cup FlagVals] :
                   /\ f["id"] \in PkVals
                   /\ f["value"] \in ValueVals
                   /\ \A g \in FlagNames : f[g] \in FlagVals}

(* -------------------------------- units ------------------------------- *)
\* calls of wrapTsFpDiMikroorm that can be in flight together
MaxUnits == 2
Units == 1..MaxUnits

\* the entity instances a value mentions, at any depth
RECURSIVE Mentioned(_)
Mentioned(v) ==
  (IF v.tag = "entity" THEN {v.ref} ELSE {}) \cup UNION {Mentioned(v.items[i]) : i \in DOMAIN v.items}

\* no scope: diInit was not called yet
NoScope == [em |-> 0, entities |-> {}, hook |-> "none"]

\* the unit whose continuation runs has its state in the variables
Running == [pc |-> "running"]

\* a unit before wrapTsFpDiMikroorm is called for it
NotCalled(h) ==
  [pc |-> "start", heap |-> h, store |-> [c \in Range(Categories) |-> <<>>], di |-> NoScope, cb |-> Pending,
   entities |-> <<>>, lookups |-> <<>>, tasks |-> <<>>, ops |-> <<>>, merges |-> <<>>, faults |-> <<>>,
   hookRuns |-> <<>>, result |-> Pending, steps |-> 0, em |-> 0, regs |-> <<>>, held |-> {}]

\* the state of the running unit, as it is kept while another unit runs
Snapshot ==
  [pc |-> pc, heap |-> heap, store |-> store, di |-> di, cb |-> cb,
   entities |-> entities, lookups |-> lookups, tasks |-> tasks, ops |-> ops, merges |-> merges, faults |-> faults,
   hookRuns |-> hookRuns, result |-> result, steps |-> steps, em |-> em, regs |-> regs, held |-> held]

(* -------------------------------- Init -------------------------------- *)
\* the unit before wrapTsFpDiMikroorm is called, for every choice of entity
\* instances; the primary-key values are interchangeable: the first entity takes "1"
Unit ==
  /\ pc = "start"
  /\ heap \in [{EntObj(e) : e \in EntityIds} -> EntityFields]
  /\ heap[EntObj("e1")]["id"] = "1"
  /\ store = [c \in Range(Categories) |-> <<>>]
  /\ di = NoScope
  /\ cb = Pending
  /\ entities = <<>>
  /\ lookups = <<>>
  /\ tasks = <<>>
  /\ ops = <<>>
  /\ merges = <<>>
  /\ faults = <<>>
  /\ hookRuns = <<>>
  /\ result = Pending
  /\ steps = 0
  /\ em = 0
  /\ regs = <<>>
  /\ held = {}
  /\ me = 1
  /\ parked = [u \in Units |-> IF u = 1 THEN Running ELSE NotCalled(heap)]
  /\ forked = 0

(* ------------------------- wrapTsFpDiMikroorm ------------------------- *)
\* lines 22-26: diInit opens the scope, the session is forked, em and entities are set
Open ==
  /\ pc = "start"
  /\ forked' = forked + 1
  /\ em' = forked + 1
  /\ di' = [em |-> forked + 1, entities |-> ConfiguredEntities, hook |-> "none"]
  /\ pc' = "cb"
  /\ UNCHANGED <<heap, store, cb, entities, lookups, tasks, ops, merges, faults, hookRuns, result, steps,
               regs, held, me, parked>>

\* caller logic: a state slot of a category takes a value
CbSetState(c, v) ==
  /\ pc = "cb"
  /\ steps < MaxCallerSteps
  /\ Held([store EXCEPT ![c] = <<v>>]) <= MaxAtoms
  /\ store' = [store EXCEPT ![c] = <<v>>]
  /\ held' = held \cup Mentioned(v)
  /\ steps' = steps + 1
  /\ UNCHANGED <<pc, heap, di, cb, entities, lookups, tasks, ops, merges, faults, hookRuns, result,
               em, regs, me, parked, forked>>

\* (mutant) a callback already registered is kept
onPersistKeepsFirst(h) ==
  /\ pc = "cb"
  /\ steps < MaxCallerSteps
  /\ di' = [di EXCEPT !.hook = IF di.hook = "none" THEN h ELSE di.hook]
  /\ regs' = Append(regs, h)
  /\ steps' = steps + 1
  /\ UNCHANGED <<pc, heap, store, cb, entities, lookups, tasks, ops, merges, faults, hookRuns, result,
               em, held, me, parked, forked>>

\* onPersist(cb), lines 52-54
onPersist(h) ==
  /\ pc = "cb"
  /\ steps < MaxCallerSteps
  /\ di' = [di EXCEPT !.hook = h]
  /\ regs' = Append(regs, h)
  /\ steps' = steps + 1
  /\ UNCHANGED <<pc, heap, store, cb, entities, lookups, tasks, ops, merges, faults, hookRuns, result,
               em, held, me, parked, forked>>

\* line 28: cb() is fulfilled
CbReturn(r) ==
  /\ pc = "cb"
  /\ cb' = Resolved(r)
  /\ pc' = "collect"
  /\ UNCHANGED <<heap, store, di, entities, lookups, tasks, ops, merges, faults, hookRuns, result, steps,
               em, regs, held, me, parked, forked>>

\* (mutant) the rejection of cb() is caught and the unit goes on to persist
CbThrowCaught(x) ==
  /\ pc = "cb"
  /\ cb' = Rejected(x)
  /\ pc' = "collect"
  /\ UNCHANGED <<heap, store, di, entities, lookups, tasks, ops, merges, faults, hookRuns, result, steps,
               em, regs, held, me, parked, forked>>

\* line 28: cb() rejects, the await throws, and the callback of diInit rejects
CbThrow(x) ==
  /\ pc = "cb"
  /\ cb' = Rejected(x)
  /\ result' = Rejected(x)
  /\ pc' = "closed"
  /\ UNCHANGED <<heap, store, di, entities, lookups, tasks, ops, merges, faults, hookRuns, steps,
               em, regs, held, me, parked, forked>>

\* (mutant) the values are gathered at every write, not read when cb() has returned
allStateEverHeld ==
  store["state"] \o store["once"] \o store["derived"]
  \o SelectSeq(<<EntityNode("e1"), EntityNode("e2")>>, LAMBDA v : v.ref \in held)

\* lines 30-34
allState == store["state"] \o store["once"] \o store["derived"]

\* lines 30-38: the collection, and the lookups of the $forUpsert entities issued
Collect ==
  /\ pc = "collect"
  /\ LET c == entitiesSet(ArrayOf(allState), <<>>)
         entitiesForUpsert == SelectSeq(c.set, LAMBDA e : Truthy(heap[EntObj(e)]["$forUpsert"]))
     IN IF c.thrown
          THEN /\ result' = Rejected(c.err)
               /\ pc' = "closed"
               /\ UNCHANGED <<entities, lookups, ops>>
          ELSE /\ entities' = c.set
               /\ ops' = ops \o [i \in DOMAIN entitiesForUpsert |-> fetchExistingEntity(entitiesForUpsert[i])]
               /\ lookups' = [i \in DOMAIN entitiesForUpsert |-> Len(ops) + i]
               /\ pc' = "fetching"
               /\ UNCHANGED result
  /\ UNCHANGED <<heap, store, di, cb, tasks, merges, faults, hookRuns, steps,
               em, regs, held, me, parked, forked>>

\* line 38: a lookup is fulfilled
FetchSettle(i, found, val) ==
  /\ pc = "fetching"
  /\ i \in DOMAIN lookups
  /\ ops[lookups[i]].res = "pending"
  /\ LET st == fulfilLookup([ops |-> ops, heap |-> heap], lookups[i], found, val)
     IN ops' = st.ops /\ heap' = st.heap
  /\ UNCHANGED <<pc, store, di, cb, entities, lookups, tasks, merges, faults, hookRuns, result, steps,
               em, regs, held, me, parked, forked>>

\* line 38: a lookup rejects, and Promise.all with it
FetchReject(i) ==
  /\ pc = "fetching"
  /\ i \in DOMAIN lookups
  /\ ops[lookups[i]].res = "pending"
  /\ ops' = [ops EXCEPT ![lookups[i]].res = "failed"]
  /\ faults' = Append(faults, lookups[i])
  /\ result' = Rejected(Err("session", lookups[i]))
  /\ pc' = "closed"
  /\ UNCHANGED <<heap, store, di, cb, entities, lookups, tasks, merges, hookRuns, steps,
               em, regs, held, me, parked, forked>>

\* an entity whose persistEntity issues its mark before any await
MarksAtOnce(e) ==
  LET f == heap[EntObj(e)]
  IN Truthy(f["$forDelete"]) \/ Truthy(f["$forUpdate"]) \/ ~Truthy(f["$forUpsert"])

\* (mutant) line 39 goes on as soon as one persistEntity is done: a race, not Promise.all
AfterTaskAny(ts) ==
  IF \E i \in DOMAIN ts : ts[i].state = "failed" THEN "closed"
  ELSE IF ts = <<>> \/ \E i \in DOMAIN ts : ts[i].state = "done" THEN "flush"
  ELSE "persisting"

\* where line 39 stands after a promise of persistEntity settled: Promise.all
\* rejects with the first rejection, and is fulfilled when every promise is
AfterTask(ts) ==
  IF \E i \in DOMAIN ts : ts[i].state = "failed" THEN "closed"
  ELSE IF \A i \in DOMAIN ts : ts[i].state = "done" THEN "flush"
  ELSE "persisting"

\* (mutant) line 38 is not awaited: the persistEntity calls start while lookups are in flight
PersistAllUnawaited(fail) ==
  /\ pc = "fetching"
  /\ fail \subseteq {i \in DOMAIN entities : MarksAtOnce(entities[i])}
  /\ LET st == mapPersistEntity([ops |-> ops, heap |-> heap, tasks |-> <<>>, merges |-> merges, faults |-> faults], 1, fail)
     IN /\ ops' = st.ops
        /\ heap' = st.heap
        /\ tasks' = st.tasks
        /\ merges' = st.merges
        /\ faults' = st.faults
        /\ pc' = AfterTask(st.tasks)
        /\ result' = IF st.faults # <<>> THEN Rejected(Err("session", st.faults[1])) ELSE result
  /\ UNCHANGED <<store, di, cb, entities, lookups, hookRuns, steps,
               em, regs, held, me, parked, forked>>

\* line 39, once every promise of line 38 is fulfilled: entities.map(persistEntity)
PersistAll(fail) ==
  /\ pc = "fetching"
  /\ \A i \in DOMAIN lookups : ops[lookups[i]].res \in {"found", "none"}
  /\ fail \subseteq {i \in DOMAIN entities : MarksAtOnce(entities[i])}
  /\ LET st == mapPersistEntity([ops |-> ops, heap |-> heap, tasks |-> <<>>, merges |-> merges, faults |-> faults], 1, fail)
     IN /\ ops' = st.ops
        /\ heap' = st.heap
        /\ tasks' = st.tasks
        /\ merges' = st.merges
        /\ faults' = st.faults
        /\ pc' = AfterTask(st.tasks)
        /\ result' = IF st.faults # <<>> THEN Rejected(Err("session", st.faults[1])) ELSE result
  /\ UNCHANGED <<store, di, cb, entities, lookups, hookRuns, steps,
               em, regs, held, me, parked, forked>>

\* the lookup a persistEntity awaits rejects, and the persistEntity with it
PersistReject(i) ==
  /\ i \in DOMAIN tasks
  /\ tasks[i].state = "awaiting"
  /\ ops' = [ops EXCEPT ![tasks[i].lookup].res = "failed"]
  /\ faults' = Append(faults, tasks[i].lookup)
  /\ tasks' = [tasks EXCEPT ![i].state = "failed"]
  /\ IF pc = "persisting"
       THEN result' = Rejected(Err("session", tasks[i].lookup)) /\ pc' = "closed"
       ELSE UNCHANGED <<result, pc>>
  /\ UNCHANGED <<heap, store, di, cb, entities, lookups, merges, hookRuns, steps,
               em, regs, held, me, parked, forked>>

\* the lookup a persistEntity awaits is fulfilled: lines 104-112
PersistResume(i, found, val, failing) ==
  /\ i \in DOMAIN tasks
  /\ tasks[i].state = "awaiting"
  /\ LET st0 == fulfilLookup([ops |-> ops, heap |-> heap, tasks |-> tasks, merges |-> merges, faults |-> faults],
                             tasks[i].lookup, found, val)
         st  == resumePersistEntity(st0, i, found, failing)
     IN /\ ops' = st.ops
        /\ heap' = st.heap
        /\ tasks' = st.tasks
        /\ merges' = st.merges
        /\ faults' = st.faults
        /\ IF pc = "persisting"
             THEN /\ pc' = AfterTask(st.tasks)
                  /\ result' = IF failing THEN Rejected(Err("session", st.tasks[i].mark)) ELSE result
             ELSE UNCHANGED <<result, pc>>
  /\ UNCHANGED <<store, di, cb, entities, lookups, hookRuns, steps,
               em, regs, held, me, parked, forked>>

\* line 40: em.flush() is called
Flush ==
  /\ pc = "flush"
  /\ ops' = Append(ops, [Op("flush", "", <<>>, NoObj, "pending") EXCEPT !.em = em])
  /\ pc' = "flushing"
  /\ UNCHANGED <<heap, store, di, cb, entities, lookups, tasks, merges, faults, hookRuns, result, steps,
               em, regs, held, me, parked, forked>>

\* line 40: em.flush() is fulfilled
FlushSettle ==
  /\ pc = "flushing"
  /\ ops' = [ops EXCEPT ![Len(ops)].res = "ok"]
  /\ pc' = "hook"
  /\ UNCHANGED <<heap, store, di, cb, entities, lookups, tasks, merges, faults, hookRuns, result, steps,
               em, regs, held, me, parked, forked>>

\* (mutant) a rejected em.flush() is attempted again
FlushRejectRetried ==
  /\ pc = "flushing"
  /\ ops' = Append([ops EXCEPT ![Len(ops)].res = "failed"], [Op("flush", "", <<>>, NoObj, "pending") EXCEPT !.em = em])
  /\ faults' = Append(faults, Len(ops))
  /\ UNCHANGED <<pc, heap, store, di, cb, entities, lookups, tasks, merges, hookRuns, result, steps,
               em, regs, held, me, parked, forked>>

\* line 40: em.flush() rejects
FlushReject ==
  /\ pc = "flushing"
  /\ ops' = [ops EXCEPT ![Len(ops)].res = "failed"]
  /\ faults' = Append(faults, Len(ops))
  /\ result' = Rejected(Err("session", Len(ops)))
  /\ pc' = "closed"
  /\ UNCHANGED <<heap, store, di, cb, entities, lookups, tasks, merges, hookRuns, steps,
               em, regs, held, me, parked, forked>>

\* diHas(TS_FP_DI_MIKROORM_ON_PERSIST_CB)
diHas == di.hook # "none"

\* (mutant) the registered callback is called before em.flush()
CallHookBeforeFlush ==
  /\ pc = "flush"
  /\ diHas
  /\ hookRuns = <<>>
  /\ hookRuns' = Append(hookRuns, [cb |-> di.hook, at |-> Len(ops), res |-> "ok"])
  /\ UNCHANGED <<pc, heap, store, di, cb, entities, lookups, tasks, ops, merges, faults, result, steps,
               em, regs, held, me, parked, forked>>

\* lines 42-43: the registered callback is called
CallHook ==
  /\ pc = "hook"
  /\ diHas
  /\ hookRuns' = Append(hookRuns, [cb |-> di.hook, at |-> Len(ops), res |-> "running"])
  /\ pc' = "inhook"
  /\ UNCHANGED <<heap, store, di, cb, entities, lookups, tasks, ops, merges, faults, result, steps,
               em, regs, held, me, parked, forked>>

\* line 43, while the callback runs: it sets a state slot of the unit's scope
HookSetState(c, v) ==
  /\ pc = "inhook"
  /\ steps < MaxCallerSteps + MaxHookSteps
  /\ Held([store EXCEPT ![c] = <<v>>]) <= MaxAtoms
  /\ store' = [store EXCEPT ![c] = <<v>>]
  /\ held' = held \cup Mentioned(v)
  /\ steps' = steps + 1
  /\ UNCHANGED <<pc, heap, di, cb, entities, lookups, tasks, ops, merges, faults, hookRuns, result,
               em, regs, me, parked, forked>>

\* line 43, while the callback runs: it assigns a property of an entity instance
HookSetField(e, f, v) ==
  /\ pc = "inhook"
  /\ steps < MaxCallerSteps + MaxHookSteps
  /\ heap[EntObj(e)][f] # v
  /\ heap' = [heap EXCEPT ![EntObj(e)][f] = v]
  /\ steps' = steps + 1
  /\ UNCHANGED <<pc, store, di, cb, entities, lookups, tasks, ops, merges, faults, hookRuns, result,
               em, regs, held, me, parked, forked>>

\* line 43, while the callback runs: it calls onPersist(cb), lines 52-54
HookOnPersist(h) ==
  /\ pc = "inhook"
  /\ steps < MaxCallerSteps + MaxHookSteps
  /\ di' = [di EXCEPT !.hook = h]
  /\ regs' = Append(regs, h)
  /\ steps' = steps + 1
  /\ UNCHANGED <<pc, heap, store, cb, entities, lookups, tasks, ops, merges, faults, hookRuns, result,
               em, held, me, parked, forked>>

\* (mutant) after the callback the wrapper collects and persists again
HookReturnRecollects ==
  /\ pc = "inhook"
  /\ hookRuns' = [hookRuns EXCEPT ![Len(hookRuns)].res = "ok"]
  /\ pc' = "collect"
  /\ UNCHANGED <<heap, store, di, cb, entities, lookups, tasks, ops, merges, faults, result, steps,
               em, regs, held, me, parked, forked>>

\* (mutant) the wrapper returns what the callback returned
HookReturnOfHook ==
  /\ pc = "inhook"
  /\ hookRuns' = [hookRuns EXCEPT ![Len(hookRuns)].res = "ok"]
  /\ result' = Resolved("")
  /\ pc' = "closed"
  /\ UNCHANGED <<heap, store, di, cb, entities, lookups, tasks, ops, merges, faults, steps,
               em, regs, held, me, parked, forked>>

\* line 43: the callback's promise is fulfilled; line 46
HookReturn ==
  /\ pc = "inhook"
  /\ hookRuns' = [hookRuns EXCEPT ![Len(hookRuns)].res = "ok"]
  /\ result' = Resolved(cb.value)
  /\ pc' = "closed"
  /\ UNCHANGED <<heap, store, di, cb, entities, lookups, tasks, ops, merges, faults, steps,
               em, regs, held, me, parked, forked>>

\* (mutant) the failure of the callback is swallowed
HookThrowSwallowed ==
  /\ pc = "inhook"
  /\ hookRuns' = [hookRuns EXCEPT ![Len(hookRuns)].res = "threw"]
  /\ result' = Resolved(cb.value)
  /\ pc' = "closed"
  /\ UNCHANGED <<heap, store, di, cb, entities, lookups, tasks, ops, merges, faults, steps,
               em, regs, held, me, parked, forked>>

\* line 43: the callback throws or rejects
HookThrow ==
  /\ pc = "inhook"
  /\ hookRuns' = [hookRuns EXCEPT ![Len(hookRuns)].res = "threw"]
  /\ result' = Rejected(Err(hookRuns[Len(hookRuns)].cb, 0))
  /\ pc' = "closed"
  /\ UNCHANGED <<heap, store, di, cb, entities, lookups, tasks, ops, merges, faults, steps,
               em, regs, held, me, parked, forked>>

\* lines 42, 46: no callback is registered
Return ==
  /\ pc = "hook"
  /\ ~diHas
  /\ result' = Resolved(cb.value)
  /\ pc' = "closed"
  /\ UNCHANGED <<heap, store, di, cb, entities, lookups, tasks, ops, merges, faults, hookRuns, steps,
               em, regs, held, me, parked, forked>>

\* (mutant) the registry and the slots are one for the process, not one per diInit scope
SwitchSharedScope(u) ==
  /\ u \in Units \ {me}
  /\ parked[u].pc = "start" => \A v \in 1..(u - 1) : v = me \/ parked[v].pc # "start"
  /\ me' = u
  /\ parked' = [parked EXCEPT ![me] = Snapshot, ![u] = Running]
  /\ pc' = parked[u].pc
  /\ heap' = parked[u].heap
  /\ cb' = parked[u].cb
  /\ entities' = parked[u].entities
  /\ lookups' = parked[u].lookups
  /\ tasks' = parked[u].tasks
  /\ ops' = parked[u].ops
  /\ merges' = parked[u].merges
  /\ faults' = parked[u].faults
  /\ hookRuns' = parked[u].hookRuns
  /\ result' = parked[u].result
  /\ steps' = parked[u].steps
  /\ em' = parked[u].em
  /\ regs' = parked[u].regs
  /\ held' = parked[u].held
  /\ UNCHANGED <<forked, di, store>>

\* lines 22, 28, 38-43: at an await the event loop runs a continuation of another unit, or a
\* further call of wrapTsFpDiMikroorm; als.getStore() is then the store diInit made for
\* that unit and the locals are those of its call. Units are called in the order of their numbers
Switch(u) ==
  /\ u \in Units \ {me}
  /\ parked[u].pc = "start" => \A v \in 1..(u - 1) : v = me \/ parked[v].pc # "start"
  /\ me' = u
  /\ parked' = [parked EXCEPT ![me] = Snapshot, ![u] = Running]
  /\ pc' = parked[u].pc
  /\ heap' = parked[u].heap
  /\ store' = parked[u].store
  /\ di' = parked[u].di
  /\ cb' = parked[u].cb
  /\ entities' = parked[u].entities
  /\ lookups' = parked[u].lookups
  /\ tasks' = parked[u].tasks
  /\ ops' = parked[u].ops
  /\ merges' = parked[u].merges
  /\ faults' = parked[u].faults
  /\ hookRuns' = parked[u].hookRuns
  /\ result' = parked[u].result
  /\ steps' = parked[u].steps
  /\ em' = parked[u].em
  /\ regs' = parked[u].regs
  /\ held' = parked[u].held
  /\ UNCHANGED <<forked>>

\* the steps of the unit in which no call on the session fails: the caller logic
\* draws its slot values from vals, its return value from resps and its
\* on-persist callbacks from hs, and writes slots of the categories cats
Work(cats, vals, resps, hs) ==
  \/ Open
  \/ \E c \in cats, v \in vals : CbSetState(c, v)
  \/ \E h \in hs : onPersist(h)
  \/ \E r \in resps : CbReturn(r)
  \/ \E x \in CbErrors : CbThrow(x)
  \/ Collect
  \/ \E i \in DOMAIN lookups, found \in BOOLEAN, val \in RecValueVals : FetchSettle(i, found, val)
  \/ PersistAll({})
  \/ \E i \in DOMAIN tasks, found \in BOOLEAN, val \in RecValueVals : PersistResume(i, found, val, FALSE)
  \/ Flush
  \/ FlushSettle
  \/ CallHook
  \/ HookReturn
  \/ HookThrow
  \/ Return

\* the steps in which calls on the session fail, at most MaxFaults of them in a unit
Faulty ==
  \/ \E i \in DOMAIN lookups : Len(faults) < MaxFaults /\ FetchReject(i)
  \/ \E fail \in SUBSET (DOMAIN entities) \ {{}} : Len(faults) + Cardinality(fail) <= MaxFaults /\ PersistAll(fail)
  \/ \E i \in DOMAIN tasks : Len(faults) < MaxFaults /\ PersistReject(i)
  \/ \E i \in DOMAIN tasks, found \in BOOLEAN, val \in RecValueVals :
       Len(faults) < MaxFaults /\ PersistResume(i, found, val, TRUE)
  \/ Len(faults) < MaxFaults /\ FlushReject

\* the unit with every combination of directive flags and fields on its entities,
\* held by a plain state slot directly or in an array
EntityArrays == {ArrayOf(s) : s \in {t \in SeqsUpTo({EntityNode(e) : e \in EntityIds}, MaxAtoms) : Injective(t)}}

Next == Work({"state"}, {EntityNode(e) : e \in EntityIds} \cup EntityArrays, {"r1"}, {"h1"})

\* entities with every combination of directive flags and of primary keys
Init ==
  /\ Unit
  /\ \A e \in EntityIds : heap[EntObj(e)]["value"] = "a"

Spec == Init /\ [][Next]_vars

\* entities with every combination of field values, marked for update or upsert
InitMerge ==
  /\ Unit
  /\ \A e \in EntityIds : heap[EntObj(e)]["$noPersist"] = "absent" /\ heap[EntObj(e)]["$forDelete"] = "absent"

SpecMerge == InitMerge /\ [][Next]_vars

\* entities of one primary key and one value, with or without $noPersist, the
\* first with or without $forUpsert
InitPlain ==
  /\ Unit
  /\ \A e \in EntityIds :
       /\ heap[EntObj(e)]["value"] = "a" /\ heap[EntObj(e)]["id"] = "1"
       /\ heap[EntObj(e)]["$forDelete"] = "absent" /\ heap[EntObj(e)]["$forUpdate"] = "absent"
  /\ heap[EntObj("e2")]["$forUpsert"] = "absent"

\* the unit with every shape of slot value
NextTree == Work(Range(Categories), Values, {"r1"}, {"h1"})

SpecTree == InitPlain /\ [][NextTree]_vars

\* one entity with every combination of directive flags, in every shape of slot value
InitSkip ==
  /\ Unit
  /\ \A e \in EntityIds : heap[EntObj(e)]["value"] = "a" /\ heap[EntObj(e)]["id"] = "1"
  /\ \A g \in FlagNames : heap[EntObj("e2")][g] = "absent"

SpecSkip == InitSkip /\ [][NextTree]_vars

\* the unit with every return value and on-persist callback of the caller logic
NextHook == Work(Range(Categories), Atoms, Resps, HookIds)

SpecHook == InitPlain /\ [][NextHook]_vars

\* entities with every combination of directive flags
InitFlags ==
  /\ Unit
  /\ \A e \in EntityIds : heap[EntObj(e)]["value"] = "a" /\ heap[EntObj(e)]["id"] = "1"

\* the unit with session calls that fail
NextFault == Work(Range(Categories), {EntityNode(e) : e \in EntityIds}, {"r1"}, {"h1"}) \/ Faulty

SpecFault == InitFlags /\ [][NextFault]_vars

(* ============================== claims ================================ *)
\* the session calls of the log that are marks
Marks == {"persist", "remove"}
MarksFor(e) == {k \in DOMAIN ops : ops[k].op \in Marks /\ ops[k].src = e}
Flushes == {k \in DOMAIN ops : ops[k].op = "flush"}
\* what the collector would take from the slots as they are
Collectable == entitiesSet(ArrayOf(allState), <<>>)

(* C1: if the caller logic throws or rejects, the unit issues no find-one, no
   persist, no remove and no flush on its session, never invokes the
   on-persist callback even when one was registered, and the wrapper rejects
   with the error the caller logic raised. *)
C1_NoPersistenceOnCallerFailure ==
  cb.status = "rejected" =>
    /\ ops = <<>>
    /\ merges = <<>>
    /\ hookRuns = <<>>
    /\ result = Rejected(cb.err)
    /\ pc = "closed"

\* the caller logic failed with an entity to persist in a slot and a callback registered
C1_Witness ==
  /\ cb.status = "rejected"
  /\ diHas
  /\ ~Collectable.thrown /\ Collectable.set # <<>>

(* C3: in a unit whose caller logic, collection, marks and flush succeed, a
   registered on-persist callback is invoked exactly once, and only after the
   flush of the unit has completed: never before or during marking or flushing. *)
C3_HookOnceAfterFlush ==
  /\ Len(hookRuns) <= 1
  /\ \A j \in DOMAIN hookRuns :
       /\ Flushes # {} /\ Flushes = {Len(ops)}
       /\ ops[Len(ops)].res = "ok"
       /\ hookRuns[j].at = Len(ops)
       /\ \A k \in DOMAIN ops : ops[k].res # "pending"
       /\ Len(tasks) = Len(entities) /\ \A i \in DOMAIN tasks : tasks[i].state = "done"
  /\ (pc = "closed" /\ diHas /\ \E k \in Flushes : ops[k].res = "ok") => Len(hookRuns) = 1

\* the callback ran once, after entities were marked and flushed
C3_Witness ==
  /\ result.status = "resolved"
  /\ Len(hookRuns) = 1
  /\ \E e \in EntityIds : MarksFor(e) # {}

(* C9: if the on-persist callback fails, the wrapper rejects with the
   callback's error; this happens after the flush completed, and the marks and
   the flush issued before are not undone: no further call goes to the session. *)
C9_HookFailureAfterFlush ==
  \A j \in DOMAIN hookRuns : hookRuns[j].res = "threw" =>
    /\ result = Rejected(Err(hookRuns[j].cb, 0))
    /\ Flushes = {hookRuns[j].at} /\ ops[hookRuns[j].at].res = "ok"
    /\ Len(ops) = hookRuns[j].at
    /\ \A i \in DOMAIN entities :
         /\ MarksFor(entities[i]) = {tasks[i].mark}
         /\ ops[tasks[i].mark].res = "ok"

\* the callback failed after an entity was marked and flushed
C9_Witness ==
  /\ \E j \in DOMAIN hookRuns : hookRuns[j].res = "threw"
  /\ entities # <<>>

(* C10: if a call on the session fails in the persistence step (a findOne, a
   persist or remove mark, or the flush), the wrapper rejects with the error of
   the call that failed (the first to fail when several do), the failed call is
   not issued again, flush is attempted at most once, and the on-persist
   callback is not invoked. *)
C10_SessionFailurePropagates ==
  faults # <<>> =>
    /\ result = Rejected(Err("session", faults[1]))
    /\ pc = "closed"
    /\ hookRuns = <<>>
    /\ Cardinality(Flushes) <= 1
    /\ \A j \in DOMAIN faults :
         /\ ops[faults[j]].res = "failed"
         /\ \A k \in DOMAIN ops :
              k > faults[j] => ~(ops[k].op = ops[faults[j]].op /\ ops[k].src = ops[faults[j]].src)

\* a call on the session failed in a unit with a callback registered
C10_Witness ==
  /\ faults # <<>>
  /\ diHas
  /\ entities # <<>>

\* the directive flags of an entity instance
Flag(e, g) == Truthy(heap[EntObj(e)][g])
\* the session calls issued for an entity that are not lookups
ActsFor(e) == {k \in DOMAIN ops : ops[k].src = e /\ ops[k].op # "findOne"}
MergesOf(e) == {m \in DOMAIN merges : merges[m].src = e}

(* C5: for a collected entity with $forDelete set, whatever its $forUpsert and
   $forUpdate, the only mark is em.remove on the entity itself: no em.persist
   is issued for it, for a found record or for a reference, no reference is
   taken, and no fields are merged onto any target. *)
C5_DeleteTakesPrecedence ==
  \A i \in DOMAIN tasks : Flag(entities[i], "$forDelete") =>
    LET e == entities[i]
    IN /\ ActsFor(e) = {tasks[i].mark}
       /\ ops[tasks[i].mark].op = "remove"
       /\ ops[tasks[i].mark].tgt = EntObj(e)
       /\ MergesOf(e) = {}
       /\ tasks[i].lookup = 0
       /\ \A k \in DOMAIN ops : ops[k].op = "persist" => ops[k].tgt # EntObj(e)

\* an entity carrying all three directives was removed
C5_Witness ==
  /\ result.status = "resolved"
  /\ \E i \in DOMAIN tasks :
       /\ Flag(entities[i], "$forDelete") /\ Flag(entities[i], "$forUpsert") /\ Flag(entities[i], "$forUpdate")
       /\ ops[tasks[i].mark].op = "remove"

\* upsert is the directive that applies
UpsertOnly(e) == Flag(e, "$forUpsert") /\ ~Flag(e, "$forDelete") /\ ~Flag(e, "$forUpdate")

(* C6: for a collected entity with $forUpsert and neither $forDelete nor
   $forUpdate: when the lookup by primary key finds a record, the defined
   fields of the entity are merged onto the record and em.persist is called on
   the record, not on the entity; when it finds nothing, em.persist is called
   on the entity itself. *)
C6_Upsert ==
  \A i \in DOMAIN tasks : (UpsertOnly(entities[i]) /\ tasks[i].state = "done") =>
    LET e == entities[i]
        l == ops[tasks[i].lookup]
        m == ops[tasks[i].mark]
    IN /\ l.op = "findOne" /\ l.src = e /\ l.key = PkOf(e)
       /\ ActsFor(e) = {tasks[i].mark}
       /\ m.op = "persist"
       /\ l.res \in {"found", "none"}
       /\ l.res = "found" =>
            /\ m.tgt = l.tgt /\ m.tgt # EntObj(e)
            /\ \E n \in MergesOf(e) :
                 /\ MergesOf(e) = {n}
                 /\ merges[n].tgt = l.tgt
                 /\ \A f \in FieldNames :
                      heap[EntObj(e)][f] \notin {"absent", "undef"} => merges[n].after[f] = heap[EntObj(e)][f]
       /\ l.res = "none" => m.tgt = EntObj(e) /\ MergesOf(e) = {}

\* one upsert found its record and another found nothing
C6_Witness ==
  \E i, j \in DOMAIN tasks :
    /\ UpsertOnly(entities[i]) /\ tasks[i].state = "done" /\ ops[tasks[i].lookup].res = "found"
    /\ UpsertOnly(entities[j]) /\ tasks[j].state = "done" /\ ops[tasks[j].lookup].res = "none"

\* the merges of the log onto one target, before merge m
EarlierOnto(m) == {n \in 1..(m - 1) : merges[n].tgt = merges[m].tgt}
Max(S) == CHOOSE x \in S : \A y \in S : y <= x

(* C7: in the merge of update by reference and of upsert on a found record, a
   field of the target is overwritten iff the source entity has the field with
   a value other than undefined; a field absent or undefined on the source
   keeps the value the target had before the merge. *)
C7_PartialMerge ==
  \A m \in DOMAIN merges :
    LET src == heap[EntObj(merges[m].src)]
    IN /\ \A f \in FieldNames :
            /\ src[f] \notin {"absent", "undef"} => merges[m].after[f] = src[f]
            /\ src[f] \in {"absent", "undef"} => merges[m].after[f] = merges[m].before[f]
       /\ IF EarlierOnto(m) = {}
            THEN merges[m].before \in {RefFields(merges[m].tgt.key)}
                                      \cup {RecFields(merges[m].tgt.key, v) : v \in RecValueVals}
            ELSE merges[m].before = merges[Max(EarlierOnto(m))].after
       /\ (\A n \in DOMAIN merges : n > m => merges[n].tgt # merges[m].tgt) => heap[merges[m].tgt] = merges[m].after

\* a found record kept its value under an undefined source field and took null
\* from another source
C7_Witness ==
  /\ \E m \in DOMAIN merges :
       /\ heap[EntObj(merges[m].src)]["value"] = "undef"
       /\ merges[m].before["value"] = "b" /\ merges[m].after["value"] = "b"
  /\ \E m \in DOMAIN merges :
       /\ heap[EntObj(merges[m].src)]["value"] = "null"
       /\ merges[m].before["value"] = "b" /\ merges[m].after["value"] = "null"

\* the slot values of the unit, in the order the wrapper reads them
Slots == store["state"] \o store["once"] \o store["derived"]
\* the wrappers and containers the collector looks into
Opened == {"array", "map", "set", "some", "right"}

\* how many times an entity instance occurs in a value
RECURSIVE Occurrences(_, _)
RECURSIVE OccurrencesIn(_, _)
Occurrences(v, e) ==
  IF v.tag = "entity" THEN (IF v.ref = e THEN 1 ELSE 0)
  ELSE IF v.tag \in Opened THEN OccurrencesIn(v.items, e)
  ELSE 0
OccurrencesIn(vs, e) == IF vs = <<>> THEN 0 ELSE Occurrences(Head(vs), e) + OccurrencesIn(Tail(vs), e)

\* the errors carried by the Lefts that occur in a value
RECURSIVE LeftErrorsOf(_)
LeftErrorsOf(v) ==
  IF v.tag = "left" THEN (IF v.items[1].tag = "error" THEN {v.items[1].ref} ELSE {})
  ELSE IF v.tag \in Opened THEN UNION {LeftErrorsOf(v.items[i]) : i \in DOMAIN v.items}
  ELSE {}
LeftErrorsIn(vs) == UNION {LeftErrorsOf(vs[i]) : i \in DOMAIN vs}

\* the caller logic returned and the wrapper went through the collection
PastCollect == cb.status = "resolved" /\ pc \notin {"cb", "collect"}

(* C2: at the end of a successful unit, an entity instance reachable from two
   or more places (slots of any category, or positions inside arrays, maps,
   sets, Some and Right) is once in the collected entities, and exactly one
   persist or remove is issued for it in the unit. *)
C2_IdentityDedup ==
  (PastCollect /\ LeftErrorsIn(Slots) = {}) =>
    \A e \in EntityIds :
      LET at == {i \in DOMAIN entities : entities[i] = e}
      IN /\ Cardinality(at) = IF OccurrencesIn(Slots, e) >= 1 /\ ~Flag(e, "$noPersist") THEN 1 ELSE 0
         /\ Cardinality(MarksFor(e)) <= Cardinality(at)
         /\ result.status = "resolved" => Cardinality(MarksFor(e)) = Cardinality(at)
         /\ Cardinality({k \in DOMAIN ops : ops[k].op \in Marks /\ ops[k].tgt = EntObj(e)}) <= 1

\* a unit ended well with an entity held by two categories of slot and another
\* held twice inside containers, each marked once
C2_Witness ==
  /\ result.status = "resolved"
  /\ \E e \in EntityIds :
       /\ Cardinality({c \in Range(Categories) : OccurrencesIn(store[c], e) >= 1}) >= 2
       /\ Cardinality(MarksFor(e)) = 1

\* an entity occurs twice inside one container and is marked once
C2_WitnessNested ==
  /\ result.status = "resolved"
  /\ \E e \in EntityIds, c \in Range(Categories) :
       /\ OccurrencesIn(store[c], e) >= 2
       /\ Cardinality(MarksFor(e)) = 1

(* C4: an entity whose $noPersist is set is never passed to a call on the
   session (findOne, getReference, persist, remove), wherever it is reachable
   in the slots and whatever other directive flags it carries. *)
C4_SkipDirective ==
  \A e \in EntityIds : Flag(e, "$noPersist") =>
    /\ e \notin Range(entities)
    /\ \A k \in DOMAIN ops : ops[k].src # e /\ ops[k].tgt # EntObj(e)
    /\ MergesOf(e) = {}

\* a unit ended well with an entity marked and another, with $noPersist and a
\* directive flag, held inside a wrapper or container
C4_Witness ==
  /\ result.status = "resolved"
  /\ \E e \in EntityIds :
       /\ Flag(e, "$noPersist")
       /\ Flag(e, "$forDelete") \/ Flag(e, "$forUpdate") \/ Flag(e, "$forUpsert")
       /\ \E i \in DOMAIN Slots : Slots[i].tag \in Opened /\ Occurrences(Slots[i], e) >= 1
  /\ \E e \in EntityIds : MarksFor(e) # {}

(* C8: if a Left carrying an error is reachable in the slots (directly, or
   inside arrays, maps, sets, Some or Right, at any position relative to
   entities), then after the caller logic returned the unit aborts with that
   error: no lookup, no mark and no flush is issued, the on-persist callback is
   not invoked, and the wrapper rejects with that error. *)
C8_LeftAborts ==
  (PastCollect /\ LeftErrorsIn(Slots) # {}) =>
    /\ result.status = "rejected"
    /\ result.err.n = 0 /\ result.err.by \in LeftErrorsIn(Slots)
    /\ pc = "closed"
    /\ entities = <<>>
    /\ ops = <<>>
    /\ merges = <<>>
    /\ hookRuns = <<>>

\* the unit aborted on a Left nested behind an entity, with a callback registered
C8_Witness ==
  /\ PastCollect
  /\ diHas
  /\ \E i \in DOMAIN Slots :
       /\ Slots[i].tag \in Opened
       /\ Len(Slots[i].items) = 2
       /\ Slots[i].items[1].tag = "entity" /\ ~Flag(Slots[i].items[1].ref, "$noPersist")
       /\ LeftErrorsOf(Slots[i].items[2]) # {}

(* C11: when the caller logic, the persistence step and the on-persist callback
   all succeed, the wrapper resolves with exactly the value the caller logic
   produced, whatever was collected, marked or flushed and whatever the
   callback did. *)
C11_ReturnsResp ==
  /\ result.status = "resolved" => cb.status = "resolved" /\ result.value = cb.value /\ result.value \in Resps
  /\ (pc = "closed" /\ cb.status = "resolved" /\ LeftErrorsIn(Slots) = {} /\ faults = <<>>
        /\ \A j \in DOMAIN hookRuns : hookRuns[j].res # "threw")
       => result = Resolved(cb.value)

\* a unit that marked an entity and ran a callback resolved with the second value
C11_Witness ==
  /\ result = Resolved("r2")
  /\ \E j \in DOMAIN hookRuns : hookRuns[j].res = "ok"
  /\ \E e \in EntityIds : MarksFor(e) # {}

\* units in flight together, each holding one entity or the other, the first entity for upsert
InitUnits ==
  /\ Unit
  /\ \A e \in EntityIds :
       /\ heap[EntObj(e)]["value"] = "a" /\ heap[EntObj(e)]["id"] = "1"
       /\ \A g \in FlagNames : heap[EntObj(e)][g] = IF e = "e1" /\ g = "$forUpsert" THEN "T" ELSE "absent"

NextUnits == Work({"state"}, {EntityNode(e) : e \in EntityIds}, {"r1"}, HookIds) \/ \E u \in Units : Switch(u)

SpecUnits == InitUnits /\ [][NextUnits]_vars

\* the state of a unit, running or parked
UnitState(u) == IF u = me THEN Snapshot ELSE parked[u]
SlotsOf(l) == l.store["state"] \o l.store["once"] \o l.store["derived"]

(* C12: for any interleaving of concurrently running units, each unit forks
   its own session, em() inside a unit returns that unit's session, and every
   lookup, mark and flush of a unit's persistence step goes to the unit's own
   session and is issued for entities collected from the unit's own slots; no
   unit issues a call on another unit's session. *)
C12_OwnSession ==
  \A u \in Units :
    LET l == UnitState(u)
    IN /\ l.pc # "start" =>
            /\ l.em # 0 /\ l.di.em = l.em
            /\ \A v \in Units \ {u} : UnitState(v).em # l.em
       /\ \A k \in DOMAIN l.ops :
            /\ l.ops[k].em = l.em
            /\ l.ops[k].src # "" => l.ops[k].src \in Range(l.entities)
       /\ \A e \in Range(l.entities) : OccurrencesIn(SlotsOf(l), e) >= 1

\* two units are in their persistence step together, on different entities, one
\* with a lookup in flight
C12_Witness ==
  /\ \A u \in Units :
       /\ UnitState(u).ops # <<>>
       /\ UnitState(u).pc \in {"fetching", "persisting", "flush", "flushing"}
  /\ \E u, v \in Units : UnitState(u).entities # UnitState(v).entities
  /\ \E u \in Units : \E k \in DOMAIN UnitState(u).ops : UnitState(u).ops[k].res = "pending"

(* C13: at most one on-persist callback is invoked per unit: when onPersist is
   called several times in a unit only the callback of the last call is
   invoked, after flush, and the earlier ones never; a unit in which onPersist
   was not called invokes none, also when an earlier or concurrent unit
   registered one. *)
C13_LastRegistrationWins ==
  \A u \in Units :
    LET l == UnitState(u)
    IN /\ Len(l.hookRuns) <= 1
       /\ \A j \in DOMAIN l.hookRuns :
            /\ l.regs # <<>> /\ l.hookRuns[j].cb = l.regs[Len(l.regs)]
            /\ l.hookRuns[j].at >= 1 /\ l.ops[l.hookRuns[j].at].op = "flush" /\ l.ops[l.hookRuns[j].at].res = "ok"
       /\ (l.pc = "closed" /\ l.result.status = "resolved") => Len(l.hookRuns) = IF l.regs = <<>> THEN 0 ELSE 1

\* a unit registered two different callbacks and the second ran, while another
\* unit that registered none resolved without a callback
C13_Witness ==
  \E u, v \in Units :
    /\ UnitState(u).regs = <<"h1", "h2">>
    /\ \E j \in DOMAIN UnitState(u).hookRuns : UnitState(u).hookRuns[j].cb = "h2"
    /\ UnitState(v).regs = <<>>
    /\ UnitState(v).result.status = "resolved"
    /\ UnitState(v).ops # <<>>

(* C14: in every successful unit flush is called exactly once on the unit's
   session, also when no entity was collected; it is called only after the
   persist or remove of every collected entity has been issued, and no
   persist or remove is issued after the flush call. *)
C14_FlushOnceAfterMarks ==
  /\ Cardinality(Flushes) <= 1
  /\ \A k \in Flushes :
       /\ ops[k].em = em
       /\ Len(tasks) = Len(entities)
       /\ \A i \in DOMAIN entities :
            /\ tasks[i].mark \in 1..(k - 1)
            /\ ops[tasks[i].mark].op \in Marks /\ ops[tasks[i].mark].src = entities[i]
       /\ \A m \in DOMAIN ops : ops[m].op \in Marks => m < k
  /\ result.status = "resolved" => Cardinality(Flushes) = 1

\* a unit resolved after two entities were marked, one of them after its lookup
\* was awaited, and then flushed
C14_Witness ==
  /\ result.status = "resolved"
  /\ Len(entities) = 2
  /\ \E i \in DOMAIN tasks : tasks[i].lookup # 0 /\ tasks[i].mark > tasks[3 - i].mark
  /\ Flushes = {Len(ops)}

\* a unit that collected nothing resolved after its flush
C14_WitnessEmpty ==
  /\ result.status = "resolved"
  /\ entities = <<>>
  /\ Cardinality(Flushes) = 1

\* the findOne calls issued for an entity, and the one line 38 issued
FindsFor(e) == {k \in DOMAIN ops : ops[k].op = "findOne" /\ ops[k].src = e}
FirstFinds == {lookups[j] : j \in DOMAIN lookups}

(* C15 as stated: the results of the lookups of step 2 are kept per entity for
   step 3: for an upsert the found-or-not-found result that step 3 acts on is
   the one its step-2 lookup obtained, and step 3 issues no further findOne
   for the entity. *)
C15_LookupsCached ==
  \A i \in DOMAIN tasks : UpsertOnly(entities[i]) =>
    /\ FindsFor(entities[i]) \subseteq FirstFinds
    /\ tasks[i].state = "done" =>
         \A k \in FindsFor(entities[i]) \cap FirstFinds :
           ops[tasks[i].mark].tgt = IF ops[k].res = "found" THEN ops[k].tgt ELSE EntObj(entities[i])

(* C15 amended: step 2 issues one findOne per $forUpsert entity and the layer
   keeps none of the results; for an upsert, step 3 issues a second findOne by
   the same primary key on the same session, after every lookup of step 2 has
   completed, and acts on the result of that second call. *)
C15_LookupAgain ==
  /\ pc \notin {"start", "cb", "collect"} =>
       \A e \in Range(entities) :
         Cardinality(FindsFor(e) \cap FirstFinds) = IF Flag(e, "$forUpsert") THEN 1 ELSE 0
  /\ \A i \in DOMAIN tasks :
       LET e == entities[i]
       IN IF UpsertOnly(e)
            THEN /\ tasks[i].lookup \notin FirstFinds
                 /\ FindsFor(e) \ FirstFinds = {tasks[i].lookup}
                 /\ \A k \in FirstFinds : k < tasks[i].lookup /\ ops[k].res \in {"found", "none"}
                 /\ \A k \in FindsFor(e) : ops[k].key = PkOf(e) /\ ops[k].em = em
                 /\ tasks[i].state = "done" =>
                      ops[tasks[i].mark].tgt = IF ops[tasks[i].lookup].res = "found"
                                                 THEN ops[tasks[i].lookup].tgt ELSE EntObj(e)
            ELSE FindsFor(e) \subseteq FirstFinds /\ tasks[i].lookup = 0

\* an upsert whose first lookup found nothing persisted the record its second
\* lookup found
C15_Witness ==
  \E i \in DOMAIN tasks :
    /\ UpsertOnly(entities[i]) /\ tasks[i].state = "done"
    /\ \E k \in FindsFor(entities[i]) \cap FirstFinds : ops[k].res = "none"
    /\ ops[tasks[i].lookup].res = "found"
    /\ ops[tasks[i].mark].tgt = RecObj(PkOf(entities[i]))

(* C16: in the persistence step no persist or remove is issued for any entity
   until the step-2 lookup of every $forUpsert entity has completed, in
   whatever order the lookups complete; if a step-2 lookup fails, no mark is
   issued at all. *)
C16_MarksAfterLookups ==
  /\ \A m \in DOMAIN ops : ops[m].op \in Marks \cup {"getReference"} =>
       \A k \in FirstFinds : k < m /\ ops[k].res \in {"found", "none"}
  /\ (\E k \in FirstFinds : ops[k].res \in {"pending", "failed"}) =>
       /\ tasks = <<>>
       /\ \A m \in DOMAIN ops : m \in FirstFinds

\* two lookups of step 2 completed with different answers and marks followed
C16_Witness ==
  /\ Len(lookups) = 2
  /\ ops[lookups[1]].res = "none" /\ ops[lookups[2]].res = "found"
  /\ \E m \in DOMAIN ops : ops[m].op \in Marks

\* a lookup of step 2 failed after another had completed, and nothing was marked
C16_WitnessFailed ==
  /\ Len(lookups) = 2
  /\ ops[lookups[1]].res = "failed" /\ ops[lookups[2]].res = "found"
  /\ pc = "closed"

(* C17: for a collected entity with $forUpdate set and $forDelete not set, also
   when $forUpsert is set, the update is by reference: a reference is taken by
   primary key with getReference, the defined fields of the entity are merged
   onto it, and em.persist is called on the reference, not on the entity nor
   on a found record; without $forUpsert no findOne is issued for the entity. *)
C17_UpdateByReference ==
  \A i \in DOMAIN tasks : (Flag(entities[i], "$forUpdate") /\ ~Flag(entities[i], "$forDelete")) =>
    LET e == entities[i]
        refs == {g \in ActsFor(e) : ops[g].op = "getReference"}
        m == ops[tasks[i].mark]
    IN /\ Cardinality(refs) = 1
       /\ \A g \in refs :
            /\ ops[g].key = PkOf(e) /\ ops[g].tgt = RefObj(PkOf(e)) /\ ops[g].em = em
            /\ g < tasks[i].mark
            /\ ActsFor(e) = {g, tasks[i].mark}
            /\ m.op = "persist" /\ m.tgt = ops[g].tgt
       /\ m.tgt # EntObj(e) /\ m.tgt.k = "ref"
       /\ \E n \in MergesOf(e) :
            /\ MergesOf(e) = {n}
            /\ merges[n].tgt = m.tgt
            /\ \A f \in FieldNames :
                 heap[EntObj(e)][f] \notin {"absent", "undef"} => merges[n].after[f] = heap[EntObj(e)][f]
       /\ tasks[i].lookup = 0
       /\ FindsFor(e) \subseteq FirstFinds
       /\ ~Flag(e, "$forUpsert") => FindsFor(e) = {}

\* an entity with $forUpdate and $forUpsert, whose record the lookup of step 2
\* found, was persisted through its reference, and another with $forUpdate only
C17_Witness ==
  /\ result.status = "resolved"
  /\ \E i \in DOMAIN tasks :
       /\ Flag(entities[i], "$forUpdate") /\ Flag(entities[i], "$forUpsert") /\ ~Flag(entities[i], "$forDelete")
       /\ \E k \in FindsFor(entities[i]) : ops[k].res = "found"
       /\ ops[tasks[i].mark].tgt = RefObj(PkOf(entities[i]))
  /\ \E i \in DOMAIN tasks :
       /\ Flag(entities[i], "$forUpdate") /\ ~Flag(entities[i], "$forUpsert") /\ ~Flag(entities[i], "$forDelete")
       /\ ops[tasks[i].mark].tgt = RefObj(PkOf(entities[i]))

\* what a Left can carry: nothing, a string, an Error, an entity
Payloads == {NullNode, ScalarNode} \cup {ErrorNode(x) : x \in LeftErrors} \cup {EntityNode(e) : e \in EntityIds}
Lefts == {Left(p) : p \in Payloads}
LeftValues ==
  {EntityNode(e) : e \in EntityIds} \cup Lefts
  \cup {Some(l) : l \in Lefts} \cup {Right(l) : l \in Lefts}
  \cup {ArrayOf(<<EntityNode(e), l>>) : e \in EntityIds, l \in Lefts}
  \cup {MapOf(<<l, EntityNode(e)>>) : e \in EntityIds, l \in Lefts}

\* the unit with Lefts of every payload in its slots
NextLeft == Work(Range(Categories), LeftValues, {"r1"}, {"h1"})

SpecLeft == InitPlain /\ [][NextLeft]_vars

\* the payloads of the Lefts that occur in a value
RECURSIVE LeftPayloadsOf(_)
LeftPayloadsOf(v) ==
  IF v.tag = "left" THEN {v.items[1]}
  ELSE IF v.tag \in Opened THEN UNION {LeftPayloadsOf(v.items[i]) : i \in DOMAIN v.items}
  ELSE {}
LeftPayloadsIn(vs) == UNION {LeftPayloadsOf(vs[i]) : i \in DOMAIN vs}

\* the collection threw: the unit closed after the caller logic returned, with no call on the session
Aborted == cb.status = "resolved" /\ pc = "closed" /\ result.status = "rejected" /\ ops = <<>>

(* C18 as stated: a Left contributes nothing without aborting only when its
   payload is null or absent; whenever a reachable Left carries a payload that
   is not null, whatever its type, the traversal aborts by raising that payload
   and no entity of the unit is persisted. *)
C18_AnyPayloadAborts ==
  PastCollect =>
    IF \E p \in LeftPayloadsIn(Slots) : p.tag # "null"
      THEN Aborted /\ hookRuns = <<>>
      ELSE ~Aborted

(* C18 amended: a Left contributes nothing without aborting when its payload is
   null or absent or is not an Error (a string, an entity: the payload is not
   traversed); whenever a reachable Left carries an Error, the traversal aborts
   by raising that Error and no entity of the unit is persisted. *)
C18_ErrorPayloadAborts ==
  PastCollect =>
    IF \E p \in LeftPayloadsIn(Slots) : p.tag = "error"
      THEN /\ Aborted /\ hookRuns = <<>> /\ entities = <<>>
           /\ \E p \in LeftPayloadsIn(Slots) : p.tag = "error" /\ result.err = Err(p.ref, 0)
      ELSE /\ ~Aborted
           /\ \A e \in EntityIds :
                e \in Range(entities) <=> (OccurrencesIn(Slots, e) >= 1 /\ ~Flag(e, "$noPersist"))

\* a unit resolved with an entity marked although a Left next to it carried
\* an entity, and the entity inside the Left was not collected
C18_Witness ==
  /\ result.status = "resolved"
  /\ \E p \in LeftPayloadsIn(Slots) : p.tag = "entity" /\ ~Flag(p.ref, "$noPersist") /\ p.ref \notin Range(entities)
  /\ \E e \in EntityIds : MarksFor(e) # {}

(* C19: the collected entities are computed only from the values the slots
   hold when the caller logic returns: whatever the slot writes of the unit,
   an entity that a slot held earlier and that is not reachable from the
   current value of any slot receives no lookup, persist or remove. *)
C19_CurrentValuesOnly ==
  PastCollect =>
    \A e \in EntityIds : OccurrencesIn(Slots, e) = 0 =>
      /\ e \notin Range(entities)
      /\ \A k \in DOMAIN ops : ops[k].src # e /\ ops[k].tgt # EntObj(e)
      /\ MergesOf(e) = {}

\* a unit resolved after a slot that held an entity took another, which was marked
C19_Witness ==
  /\ result.status = "resolved"
  /\ \E e \in held : OccurrencesIn(Slots, e) = 0 /\ ~Flag(e, "$noPersist")
  /\ \E e \in EntityIds : MarksFor(e) # {}

\* a plain object with a field, an entity with a field that holds another entity
ObjectWith(v) == Node("object", "", <<v>>)
EntityWith(e, v) == Node("entity", e, <<v>>)
Fielded ==
  {ObjectWith(EntityNode(e)) : e \in EntityIds}
  \cup {EntityWith(e, EntityNode(f)) : e, f \in EntityIds}
LeafValues ==
  {EntityNode(e) : e \in EntityIds} \cup Fielded
  \cup {Some(NullNode), Right(NullNode)}
  \cup {Some(v) : v \in Fielded} \cup {Right(v) : v \in Fielded}
  \cup {ArrayOf(<<v, w>>) : v \in Fielded, w \in {EntityNode(e) : e \in EntityIds} \cup {ScalarNode}}
  \cup {SetOf(<<v>>) : v \in Fielded}

\* the unit with entities behind fields of objects and of entities in its slots
NextLeaves == Work(Range(Categories), LeafValues, {"r1"}, {"h1"})

SpecLeaves == InitPlain /\ [][NextLeaves]_vars

\* the entities met going through arrays, maps, sets and non-empty Some and Right only
RECURSIVE Through(_)
Through(v) ==
  IF v.tag = "entity" THEN {v.ref}
  ELSE IF v.tag \in {"array", "map", "set"} THEN UNION {Through(v.items[i]) : i \in DOMAIN v.items}
  ELSE IF v.tag \in {"some", "right"} THEN (IF v.items[1].tag = "null" THEN {} ELSE Through(v.items[1]))
  ELSE {}
ThroughSlots == UNION {Through(Slots[i]) : i \in DOMAIN Slots}
MentionedInSlots == UNION {Mentioned(Slots[i]) : i \in DOMAIN Slots}

(* C20: the collector descends only through arrays, maps, sets and non-empty
   Some and Right: an entity reachable only through a field of a plain object
   or of another entity is not added to the entities, and a collected entity
   is added as itself, its fields not traversed. *)
C20_NoDescentIntoFields ==
  (PastCollect /\ LeftErrorsIn(Slots) = {}) =>
    /\ Range(entities) = {e \in ThroughSlots : ~Flag(e, "$noPersist")}
    /\ \A k \in DOMAIN ops :
         /\ ops[k].src # "" => ops[k].src \in ThroughSlots
         /\ \A e \in EntityIds \ ThroughSlots : ops[k].tgt # EntObj(e)

\* a unit resolved having marked an entity whose field holds another entity,
\* and that other entity, held by no slot otherwise, got no call
C20_Witness ==
  /\ result.status = "resolved"
  /\ \E e \in ThroughSlots : MarksFor(e) # {}
  /\ \E f \in MentionedInSlots \ ThroughSlots :
       /\ ~Flag(f, "$noPersist")
       /\ \E i \in DOMAIN Slots : \E e \in ThroughSlots : Slots[i] = EntityWith(e, EntityNode(f))

(* ----------------------- the on-persist callback ---------------------- *)
\* the property writes the on-persist callback does on entity instances
HookFieldWrites == {<<"value", "null">>, <<"$forDelete", "T">>}

\* what the on-persist callback does while the wrapper awaits it
HookBody(cats, vals, hs) ==
  \/ \E c \in cats, v \in vals : HookSetState(c, v)
  \/ \E e \in EntityIds, w \in HookFieldWrites : HookSetField(e, w[1], w[2])
  \/ \E h \in hs : HookOnPersist(h)

\* the unit with an on-persist callback that writes slots and entity
\* properties and registers on-persist callbacks
NextAfter ==
  \/ Work({"state", "once"}, {EntityNode(e) : e \in EntityIds} \cup EntityArrays, {"r1"}, HookIds)
  \/ HookBody({"state", "once"}, {EntityNode(e) : e \in EntityIds} \cup EntityArrays, HookIds)

SpecAfter == InitPlain /\ [][NextAfter]_vars

(* C21: once the on-persist callback has been invoked the layer issues no
   further findOne, persist, remove or flush in the unit: the collection and
   the marks were done once, before the invocation, the flush is the last
   call of the log, an entity the callback puts into a slot gets no call,
   and no second callback invocation follows, whatever the callback
   registers. *)
C21_NothingAfterHook ==
  hookRuns # <<>> =>
    /\ Len(hookRuns) = 1
    /\ Len(ops) = hookRuns[1].at
    /\ Flushes = {Len(ops)}
    /\ \A k \in DOMAIN ops : ops[k].res # "pending"
    /\ Len(tasks) = Len(entities)
    /\ \A e \in EntityIds :
         /\ Cardinality(MarksFor(e)) <= 1
         /\ e \notin Range(entities) => MarksFor(e) = {} /\ FindsFor(e) = {}

\* the unit closed after its callback put into a slot an entity the collection
\* had not met and registered another callback: the entity got no call, the
\* other callback was not invoked
C21_Witness ==
  /\ pc = "closed"
  /\ Len(hookRuns) = 1
  /\ di.hook # hookRuns[1].cb
  /\ \E e \in Range(entities) : MarksFor(e) # {}
  /\ \E e \in Range(Collectable.set) \ Range(entities) : MarksFor(e) = {}

====
